---------------------------- MODULE Spec2Model ----------------------------
(***************************************************************************)
(* Zonal statistics and temporal aggregation (zonal_stats.py).             *)
(*                                                                         *)
(* Four specifications over one set of variables:                          *)
(*   SpecDate   the temporal key of one raster filename (lines 30-36 and   *)
(*              165-166), filenames being sequences of characters;         *)
(*   SpecBand   extraction, classification and reduction of one (band,     *)
(*              geometry) pair (lines 55-102) over every pixel strip;      *)
(*   SpecStats  one call of compute_statistics (lines 38-117) on a raster, *)
(*              a feature collection and a set of failing masks;           *)
(*   Spec       main (lines 119-205): single-raster and multi-raster mode, *)
(*              legacy time-series normalisation, append, CSV export,      *)
(*              column drop and save.                                      *)
(*                                                                         *)
(* Text is modelled as a sequence of one-character strings, a Python value *)
(* as a record [t, n, d] (tag, numerator, denominator).                    *)
(***************************************************************************)
EXTENDS Integers, Sequences, FiniteSets, TLC

VARIABLES
    fn,         \* SpecDate: [filename, outcome, key]
    bs,         \* SpecBand: [call, done, rec] one (band, geometry) pair
    cs,         \* SpecStats: [call, done, ret] one call of compute_statistics
    pc,         \* main: control point
    args,       \* main: [ntiffs, export_csv]
    input,      \* main: the feature table as gpd.read_file returned it
    gdf,        \* main: [cols, statistics, timeseries] the feature table
    ids,        \* main: the args.id_field column, as the export reads it
    tiff_idx,   \* main: 1-based index of the raster being processed
    date_key,   \* main: temporal key of the raster being processed
    stats,      \* main: result of compute_statistics for that raster
    row,        \* main: loop index i over features (append, export)
    processed,  \* main: history, [date_key, stats] of every raster appended
    csv,        \* main: the tables written, file name -> rows
    output      \* main: the feature table written by to_file

vars == <<fn, bs, cs, pc, args, input, gdf, ids, tiff_idx, date_key, stats, row, processed, csv, output>>

mainVars == <<pc, args, input, gdf, ids, tiff_idx, date_key, stats, row, processed, csv, output>>

-----------------------------------------------------------------------------
(* Bounds *)

NumFeatures == 2    \* len(gdf)
MaxBands == 2       \* src.count
Width == 2          \* pixels of the raster strip
MaxTiffs == 3       \* len(args.tiffs)

Features == 0 .. NumFeatures - 1

-----------------------------------------------------------------------------
(* Text *)

DigitChars == <<"0", "1", "2", "3", "4", "5", "6", "7", "8", "9">>

IsDigit(c) == \E n \in 1 .. 10 : DigitChars[n] = c

DigitVal(c) == (CHOOSE n \in 1 .. 10 : DigitChars[n] = c) - 1

IsSep(c) == c \in {"-", "_"}

DigitsAt(s, i, n) == i >= 1 /\ i + n - 1 <= Len(s) /\ \A k \in 0 .. n - 1 : IsDigit(s[i + k])

\* after an optional [-_] at position p: the position of the next token.
\* The optional separator is greedy; giving it back never helps, since a
\* separator is no digit.
SkipSep(s, p) == IF p <= Len(s) /\ IsSep(s[p]) THEN p + 1 ELSE p

\* \d{4}[-_]?\d{2}[-_]?\d{2} anchored at i: the position after the match, 0 if none
MatchAt(s, i) ==
    IF ~DigitsAt(s, i, 4) THEN 0
    ELSE LET m == SkipSep(s, i + 4) IN
         IF ~DigitsAt(s, m, 2) THEN 0
         ELSE LET d == SkipSep(s, m + 2) IN
              IF ~DigitsAt(s, d, 2) THEN 0 ELSE d + 2

\* re.search: the leftmost position with a match, 0 if none
SearchDate(s) ==
    IF \E i \in 1 .. Len(s) : MatchAt(s, i) # 0
    THEN CHOOSE i \in 1 .. Len(s) :
            MatchAt(s, i) # 0 /\ \A j \in 1 .. i - 1 : MatchAt(s, j) = 0
    ELSE 0

\* re.sub(r'[-_]', '', text)
RECURSIVE StripSeps(_)
StripSeps(s) ==
    IF s = <<>> THEN <<>>
    ELSE IF IsSep(Head(s)) THEN StripSeps(Tail(s))
    ELSE <<Head(s)>> \o StripSeps(Tail(s))

IsLeap(y) == (y % 4 = 0 /\ y % 100 # 0) \/ y % 400 = 0

DaysInMonth(y, m) ==
    IF m = 2 THEN (IF IsLeap(y) THEN 29 ELSE 28)
    ELSE IF m \in {4, 6, 9, 11} THEN 30 ELSE 31

Num2(s, i) == 10 * DigitVal(s[i]) + DigitVal(s[i + 1])

\* datetime.strptime(date_str, "%Y%m%d") on eight digits: %Y takes four of
\* them, %m and %d take two each when the whole text is to be consumed, and
\* the date must exist; anything else raises ValueError.
Strptime(s) ==
    LET y == 100 * Num2(s, 1) + Num2(s, 3)
        m == Num2(s, 5)
        d == Num2(s, 7)
    IN  IF y >= 1 /\ m \in 1 .. 12 /\ d >= 1 /\ d <= DaysInMonth(y, m)
        THEN [ok |-> TRUE, y |-> y, m |-> m, d |-> d]
        ELSE [ok |-> FALSE, y |-> 0, m |-> 0, d |-> 0]

Pad2(n) == <<DigitChars[(n \div 10) + 1], DigitChars[(n % 10) + 1]>>

\* date.strftime("%Y-%m-%d"), for the years 1000..9999
Strftime(dt) == Pad2(dt.y \div 100) \o Pad2(dt.y % 100) \o <<"-">> \o Pad2(dt.m) \o <<"-">> \o Pad2(dt.d)

\* extract_date_from_filename: "none" (no match), "date" or "raise"
extract_date_from_filename(filename) ==
    LET i == SearchDate(filename) IN
    IF i = 0 THEN [kind |-> "none", dt |-> Strptime(<<"0","0","0","0","0","0","0","0">>)]
    ELSE LET date_str == StripSeps(SubSeq(filename, i, MatchAt(filename, i) - 1))
             dt == Strptime(date_str)
         IN  IF dt.ok THEN [kind |-> "date", dt |-> dt] ELSE [kind |-> "raise", dt |-> dt]

\* lines 165-166: date, then date_key; os.path.basename of a name without
\* directory is the name itself
TemporalKey(filename) ==
    LET date == extract_date_from_filename(filename) IN
    IF date.kind = "raise" THEN [outcome |-> "raised", key |-> <<>>]
    ELSE IF date.kind = "date" THEN [outcome |-> "key", key |-> Strftime(date.dt)]
    ELSE [outcome |-> "key", key |-> filename]

-----------------------------------------------------------------------------
(* Python values *)

Val(t, n, d) == [t |-> t, n |-> n, d |-> d]

None == Val("none", 0, 1)

NaN == Val("nan", 0, 1)

Real(n) == Val("num", n, 1)

RECURSIVE Gcd(_, _)
Gcd(a, b) == IF b = 0 THEN a ELSE Gcd(b, a % b)

\* the number n/d (d > 0, n >= 0), in lowest terms
Ratio(n, d) == LET g == Gcd(n, d) IN Val("num", n \div g, d \div g)

\* the square root of n/d, kept as its radicand in lowest terms
Sqrt(n, d) == LET g == Gcd(n, d) IN Val("sqrt", n \div g, d \div g)

\* x != y on array elements: NaN differs from everything, itself included
PyNeq(x, y) == x.t = "nan" \/ y.t = "nan" \/ x # y

\* np.isfinite
IsFinite(x) == x.t = "num"

Metrics == {"min", "max", "mean", "std", "count", "valid", "invalid"}

\* the dictionary key f"{band_name}_{metric}"; no two (name, metric) pairs
\* give the same text, no metric being a suffix of "_" and another
Key(band_name, metric) == <<band_name, metric>>

DateField == <<"date">>

\* dict.update, and {**a, **b}: the keys of both, b's values winning
Update(a, b) == [k \in DOMAIN a \cup DOMAIN b |-> IF k \in DOMAIN b THEN b[k] ELSE a[k]]

EmptyDict == [k \in {} |-> None]

-----------------------------------------------------------------------------
(* compute_statistics *)

PixelValues == {Real(0), Real(1), NaN}

NodataValues == {None, Real(0)}

\* a raster is [nodata, count, pixels]: src.nodata, src.count and one strip
\* of pixels per band
Strips == [1 .. Width -> PixelValues]

\* a geometry on the strip: its bounding window lo..hi and the pixels of the
\* window whose centre it covers
Geometries ==
    UNION { [lo : {lo}, hi : {hi}, inside : SUBSET (lo .. hi)]
            : <<lo, hi>> \in {w \in (1 .. Width) \X (1 .. Width) : w[1] <= w[2]} }

\* rasterio.mask.mask(src, [geom], crop=True)[0][band - 1]: the window of the
\* band, every pixel outside the geometry set to the fill value, which is
\* src.nodata and 0 when the raster declares none (filled=True)
MaskedWindow(src, geom, band) ==
    LET fill == IF src.nodata = None THEN Real(0) ELSE src.nodata IN
    [p \in 1 .. (geom.hi - geom.lo + 1) |->
        IF (geom.lo + p - 1) \in geom.inside THEN src.pixels[band][geom.lo + p - 1] ELSE fill]

\* lines 74-77
ValidMask(data, nodata) ==
    IF nodata # None
    THEN [p \in DOMAIN data |-> PyNeq(data[p], nodata)]
    ELSE [p \in DOMAIN data |-> IsFinite(data[p])]

RECURSIVE SumN(_)
SumN(xs) == IF xs = <<>> THEN 0 ELSE Head(xs).n + SumN(Tail(xs))

RECURSIVE SumSq(_)
SumSq(xs) == IF xs = <<>> THEN 0 ELSE Head(xs).n * Head(xs).n + SumSq(Tail(xs))

HasNaN(xs) == \E p \in DOMAIN xs : xs[p].t = "nan"

\* np.min, np.max, np.mean, np.std (population) over a non-empty array of
\* whole numbers and NaN; NaN propagates
NpMin(xs) == IF HasNaN(xs) THEN NaN
             ELSE Real(CHOOSE m \in {xs[p].n : p \in DOMAIN xs} : \A p \in DOMAIN xs : m <= xs[p].n)

NpMax(xs) == IF HasNaN(xs) THEN NaN
             ELSE Real(CHOOSE m \in {xs[p].n : p \in DOMAIN xs} : \A p \in DOMAIN xs : m >= xs[p].n)

NpMean(xs) == IF HasNaN(xs) THEN NaN ELSE Ratio(SumN(xs), Len(xs))

NpStd(xs) == IF HasNaN(xs) THEN NaN
             ELSE Sqrt(Len(xs) * SumSq(xs) - SumN(xs) * SumN(xs), Len(xs) * Len(xs))

StatsRecord(band_name, mn, mx, mean, std, count, valid, invalid) ==
    [k \in {Key(band_name, m) : m \in Metrics} |->
        CASE k[2] = "min" -> mn
          [] k[2] = "max" -> mx
          [] k[2] = "mean" -> mean
          [] k[2] = "std" -> std
          [] k[2] = "count" -> Real(count)
          [] k[2] = "valid" -> Real(valid)
          [] k[2] = "invalid" -> Real(invalid)]

\* lines 60-68: the record appended when mask raises
FailedRecord(band_name) == StatsRecord(band_name, None, None, None, None, 0, 0, 0)

\* data[valid_mask]: the elements the mask selects, in order
RECURSIVE Select(_, _, _)
Select(data, valid_mask, p) ==
    IF p > Len(data) THEN <<>>
    ELSE IF valid_mask[p] THEN <<data[p]>> \o Select(data, valid_mask, p + 1)
    ELSE Select(data, valid_mask, p + 1)

\* Reduce with the zero-valid record reporting no invalid pixel
ReduceInvalidZero(band_name, total_pixels, valid_data) ==
    IF Len(valid_data) = 0
    THEN StatsRecord(band_name, None, None, None, None, total_pixels, 0, 0)
    ELSE StatsRecord(band_name, NpMin(valid_data), NpMax(valid_data), NpMean(valid_data),
                     NpStd(valid_data), total_pixels, Len(valid_data), total_pixels - Len(valid_data))

\* Reduce with the zero-valid record copied from the failure record
ReduceZeroCount(band_name, total_pixels, valid_data) ==
    IF Len(valid_data) = 0
    THEN StatsRecord(band_name, None, None, None, None, 0, 0, 0)
    ELSE StatsRecord(band_name, NpMin(valid_data), NpMax(valid_data), NpMean(valid_data),
                     NpStd(valid_data), total_pixels, Len(valid_data), total_pixels - Len(valid_data))

\* lines 83-102: the record of the classified window
Reduce(band_name, total_pixels, valid_data) ==
    IF Len(valid_data) = 0
    THEN StatsRecord(band_name, None, None, None, None, total_pixels, 0, total_pixels - Len(valid_data))
    ELSE StatsRecord(band_name, NpMin(valid_data), NpMax(valid_data), NpMean(valid_data),
                     NpStd(valid_data), total_pixels, Len(valid_data), total_pixels - Len(valid_data))

\* lines 71-102: the record of one extracted window; valid_pixels, the number
\* of true elements of valid_mask, is the length of data[valid_mask]
BandRecord(band_name, data, nodata) ==
    Reduce(band_name, Len(data), Select(data, ValidMask(data, nodata), 1))

FallbackLabels == <<"band_1", "band_2", "band_3", "band_4">>

\* line 50; band = i + 1, src.indexes being 1..count
BandName(band_names, band) ==
    IF band_names # <<>> /\ band - 1 < Len(band_names) THEN band_names[band] ELSE FallbackLabels[band]

\* GeomStep with a failure overwriting the records the band has so far
GeomStepFailureNullsBand(c, band, geom_idx, band_stats) ==
    IF <<band, geom_idx>> \in c.fails
    THEN [p \in 1 .. Len(band_stats) + 1 |-> FailedRecord(BandName(c.band_names, band))]
    ELSE Append(band_stats, BandRecord(BandName(c.band_names, band),
                                       MaskedWindow(c.src, c.shapes[geom_idx], band), c.src.nodata))

\* lines 55-102: one iteration of the geometry loop, band_stats after it
GeomStep(c, band, geom_idx, band_stats) ==
    IF <<band, geom_idx>> \in c.fails
    THEN Append(band_stats, FailedRecord(BandName(c.band_names, band)))
    ELSE Append(band_stats, BandRecord(BandName(c.band_names, band),
                                       MaskedWindow(c.src, c.shapes[geom_idx], band), c.src.nodata))

RECURSIVE GeomLoop(_, _, _, _)
GeomLoop(c, band, geom_idx, band_stats) ==
    IF geom_idx = NumFeatures THEN band_stats
    ELSE GeomLoop(c, band, geom_idx + 1, GeomStep(c, band, geom_idx, band_stats))

\* lines 49-107: stats_list after the bands band..count
RECURSIVE BandLoop(_, _, _)
BandLoop(c, band, stats_list) ==
    IF band > c.src.count THEN stats_list
    ELSE BandLoop(c, band + 1, Append(stats_list, GeomLoop(c, band, 0, <<>>)))

\* MergeBands reading band_stats[0] for every feature
RECURSIVE MergeBandsFirstGeom(_, _, _, _)
MergeBandsFirstGeom(stats_list, i, b, geom_stats) ==
    IF b > Len(stats_list) THEN geom_stats
    ELSE MergeBandsFirstGeom(stats_list, i, b + 1, Update(geom_stats, stats_list[b][1]))

\* lines 112-114: geom_stats of feature i
RECURSIVE MergeBands(_, _, _, _)
MergeBands(stats_list, i, b, geom_stats) ==
    IF b > Len(stats_list) THEN geom_stats
    ELSE MergeBands(stats_list, i, b + 1, Update(geom_stats, stats_list[b][i + 1]))

\* lines 110-115
RECURSIVE CombineLoop(_, _, _)
CombineLoop(stats_list, i, combined_stats) ==
    IF i = NumFeatures THEN combined_stats
    ELSE CombineLoop(stats_list, i + 1, Append(combined_stats, MergeBands(stats_list, i, 1, EmptyDict)))

\* c = [src, shapes, band_names, fails], fails the (band, geom_idx) pairs
\* whose mask call raises
compute_statistics(c) == CombineLoop(BandLoop(c, 1, <<>>), 0, <<>>)

-----------------------------------------------------------------------------
(* Inputs of the specifications *)

Prefixes == {<<>>, <<"s", "_">>, <<"9">>}

Suffixes == {<<".", "t", "i", "f">>, <<"_", "v", "2", ".", "t", "i", "f">>}

Years == {<<"2", "0", "2", "3">>, <<"2", "0", "2", "4">>, <<"0", "0", "0", "0">>}

Months == {<<"0", "0">>, <<"0", "1">>, <<"0", "2">>, <<"0", "5">>, <<"1", "2">>, <<"1", "3">>}

Days == {<<"0", "0">>, <<"1", "4">>, <<"2", "9">>, <<"3", "0">>, <<"3", "1">>, <<"3", "2">>}

Seps == {<<>>, <<"-">>, <<"_">>}

\* names without a date: no digits, too few digits, a doubled separator
UndatedNames ==
    { <<"s", "c", "e", "n", "e", "_", "n", "o", "D", "a", "t", "e", ".", "t", "i", "f">>,
      <<"2", "0", "2", "3", ".", "t", "i", "f">>,
      <<"2", "0", "2", "3", "-", "_", "0", "5", "1", "4">>,
      <<"2", "0", "2", "3", "0", "5", "x", "1", "4">> }

Filenames ==
    UndatedNames \cup
    { p \o y \o s1 \o m \o s2 \o d \o x :
        p \in Prefixes, y \in Years, s1 \in Seps, m \in Months, s2 \in Seps, d \in Days, x \in Suffixes }

BandNameChoices == {<<>>, <<"a">>, <<"a", "a">>, <<"band_2">>}

\* SpecBand: one band of any strip under any geometry
BandCalls ==
    { [src |-> [nodata |-> nd, count |-> 1, pixels |-> <<strip>>],
       shapes |-> [i \in Features |-> g],
       band_names |-> bn,
       fails |-> IF f THEN {<<1, 0>>} ELSE {}] :
        nd \in NodataValues, strip \in Strips, g \in Geometries, bn \in {<<>>, <<"a">>}, f \in BOOLEAN }

\* SpecStats and Spec: rasters and geometries that give every pair of a call
\* a record of its own
BandStrip(b) == IF b % 2 = 1 THEN <<Real(1), Real(0)>> ELSE <<Real(0), NaN>>

SampleGeometries ==
    { [lo |-> 1, hi |-> 2, inside |-> {1, 2}],
      [lo |-> 1, hi |-> 2, inside |-> {1}] }

SampleRasters ==
    { [nodata |-> nd, count |-> n, pixels |-> [b \in 1 .. n |-> BandStrip(b)]] :
        nd \in NodataValues, n \in 1 .. MaxBands }

Calls ==
    { c \in [src : SampleRasters, shapes : [Features -> SampleGeometries], band_names : BandNameChoices,
             fails : SUBSET ((1 .. MaxBands) \X Features)] :
        c.fails \subseteq (1 .. c.src.count) \X Features }

-----------------------------------------------------------------------------
(* States outside the specification at hand *)

FnIdle == fn = [filename |-> <<>>, outcome |-> "idle", key |-> <<>>]

BsIdle == bs = [call |-> <<>>, done |-> FALSE, rec |-> <<>>]

CsIdle == cs = [call |-> <<>>, done |-> FALSE, ret |-> <<>>]

MainIdle ==
    /\ pc = "idle"
    /\ args = [ntiffs |-> 0, export_csv |-> FALSE]
    /\ input = <<>>
    /\ gdf = <<>>
    /\ ids = <<>>
    /\ tiff_idx = 0
    /\ date_key = <<>>
    /\ stats = <<>>
    /\ row = 0
    /\ processed = <<>>
    /\ csv = <<>>
    /\ output = <<>>

-----------------------------------------------------------------------------
(* SpecDate: the temporal key of a filename *)

InitDate ==
    /\ fn \in [filename : Filenames, outcome : {"pending"}, key : {<<>>}]
    /\ BsIdle
    /\ CsIdle
    /\ MainIdle

\* lines 165-166
ComputeKey ==
    /\ fn.outcome = "pending"
    /\ fn' = [filename |-> fn.filename,
              outcome |-> TemporalKey(fn.filename).outcome,
              key |-> TemporalKey(fn.filename).key]
    /\ UNCHANGED <<bs, cs, mainVars>>

SpecDate == InitDate /\ [][ComputeKey]_vars

-----------------------------------------------------------------------------
(* SpecBand: the body of the geometry loop on one (band, geometry) pair *)

InitBand ==
    /\ bs \in [call : BandCalls, done : {FALSE}, rec : {<<>>}]
    /\ FnIdle
    /\ CsIdle
    /\ MainIdle

\* lines 55-102, band 1 and geometry 0, band_stats being empty
ExtractAndReduce ==
    /\ ~bs.done
    /\ bs' = [call |-> bs.call, done |-> TRUE, rec |-> GeomStep(bs.call, 1, 0, <<>>)[1]]
    /\ UNCHANGED <<fn, cs, mainVars>>

SpecBand == InitBand /\ [][ExtractAndReduce]_vars

-----------------------------------------------------------------------------
(* SpecStats: one call of compute_statistics *)

InitStats ==
    /\ cs \in [call : Calls, done : {FALSE}, ret : {<<>>}]
    /\ FnIdle
    /\ BsIdle
    /\ MainIdle

\* lines 38-117
CallComputeStatistics ==
    /\ ~cs.done
    /\ cs' = [call |-> cs.call, done |-> TRUE, ret |-> compute_statistics(cs.call)]
    /\ UNCHANGED <<fn, bs, mainVars>>

SpecStats == InitStats /\ [][CallComputeStatistics]_vars

-----------------------------------------------------------------------------
(* Claims on compute_statistics *)

Field(rec, band_name, metric) == rec[Key(band_name, metric)]

\* the band labels of a call
CallNames(c) == {BandName(c.band_names, b) : b \in 1 .. c.src.count}

\* the last band carrying a label: its record is the one the merge keeps
LastBand(c, name) ==
    CHOOSE b \in 1 .. c.src.count :
        BandName(c.band_names, b) = name /\ \A b2 \in b + 1 .. c.src.count : BandName(c.band_names, b2) # name

\* the strip pixels the geometry covers, in window order
RECURSIVE CoveredFrom(_, _, _, _)
CoveredFrom(src, geom, band, p) ==
    IF p > geom.hi THEN <<>>
    ELSE IF p \in geom.inside THEN <<src.pixels[band][p]>> \o CoveredFrom(src, geom, band, p + 1)
    ELSE CoveredFrom(src, geom, band, p + 1)

\* C1: every band statistics record of a call satisfies count = valid +
\* invalid: the normal record, the zero-valid record and the record
\* substituted after a failed extraction.
C1_CountIsValidPlusInvalid ==
    cs.done =>
        \A i \in Features : \A name \in CallNames(cs.call) :
            /\ {Key(name, m) : m \in Metrics} \subseteq DOMAIN cs.ret[i + 1]
            /\ Field(cs.ret[i + 1], name, "count").n =
                 Field(cs.ret[i + 1], name, "valid").n + Field(cs.ret[i + 1], name, "invalid").n

\* a call whose result holds a normal, a zero-valid and a failure record
C1_Witness ==
    /\ cs.done
    /\ \E i \in Features : \E name \in CallNames(cs.call) :
          Field(cs.ret[i + 1], name, "valid").n > 0 /\ Field(cs.ret[i + 1], name, "invalid").n > 0
    /\ \E i \in Features : \E name \in CallNames(cs.call) :
          Field(cs.ret[i + 1], name, "valid").n = 0 /\ Field(cs.ret[i + 1], name, "count").n > 0
    /\ \E i \in Features : \E name \in CallNames(cs.call) :
          Field(cs.ret[i + 1], name, "count").n = 0 /\ <<LastBand(cs.call, name), i>> \in cs.call.fails

\* C5: compute_statistics returns one combined record per feature, record i
\* holding for every band label the record of geometry i in the last band
\* carrying that label, whatever extractions failed.
C5_OneRecordPerFeatureInOrder ==
    cs.done =>
        /\ Len(cs.ret) = NumFeatures
        /\ \A i \in Features :
              /\ DOMAIN cs.ret[i + 1] = {Key(name, m) : name \in CallNames(cs.call), m \in Metrics}
              /\ \A name \in CallNames(cs.call) : \A m \in Metrics :
                    Field(cs.ret[i + 1], name, m) =
                        Field(GeomStep(cs.call, LastBand(cs.call, name), i, <<>>)[1], name, m)

\* every extraction of feature 0 failed, in a raster of several bands, and
\* another feature has a record with valid pixels
C5_Witness ==
    /\ cs.done
    /\ cs.call.src.count > 1
    /\ \A b \in 1 .. cs.call.src.count : <<b, 0>> \in cs.call.fails
    /\ Len(cs.ret) = NumFeatures
    /\ \E i \in Features : \E name \in CallNames(cs.call) : Field(cs.ret[i + 1], name, "valid").n > 0

\* C9: a failed extraction is an isolated fault. The call completes; the
\* failing pair gets the record {min,max,mean,std}=null, count=valid=invalid=0
\* (under its band label, unless a later band of the same label overwrites
\* it); every other field of every feature is what the same call returns
\* when that extraction does not fail.
C9_FailureIsIsolated ==
    cs.done =>
        \A f \in cs.call.fails :
            LET name == BandName(cs.call.band_names, f[1])
                other == compute_statistics([cs.call EXCEPT !.fails = @ \ {f}])
            IN  /\ Len(cs.ret) = Len(other)
                /\ \A i \in Features :
                      /\ DOMAIN cs.ret[i + 1] = DOMAIN other[i + 1]
                      /\ \A k \in DOMAIN cs.ret[i + 1] :
                            (i # f[2] \/ k[1] # name) => cs.ret[i + 1][k] = other[i + 1][k]
                /\ LastBand(cs.call, name) = f[1] =>
                      \A m \in Metrics :
                          Field(cs.ret[f[2] + 1], name, m) = Field(FailedRecord(name), name, m)
                /\ \A m \in {"min", "max", "mean", "std"} : Field(FailedRecord(name), name, m) = None
                /\ \A m \in {"count", "valid", "invalid"} : Field(FailedRecord(name), name, m) = Real(0)

\* the last geometry of the first band failed, alone, and the geometries
\* before and the band after it have valid pixels
C9_Witness ==
    /\ cs.done
    /\ cs.call.src.count > 1
    /\ cs.call.fails = {<<1, NumFeatures - 1>>}
    /\ Field(cs.ret[NumFeatures], BandName(cs.call.band_names, 1), "count") = Real(0)
    /\ Field(cs.ret[1], BandName(cs.call.band_names, 1), "valid").n > 0
    /\ BandName(cs.call.band_names, 2) # BandName(cs.call.band_names, 1)
    /\ Field(cs.ret[NumFeatures], BandName(cs.call.band_names, 2), "valid").n > 0

-----------------------------------------------------------------------------
(* Claims on one (band, geometry) pair *)

PairName == BandName(bs.call.band_names, 1)

PairFailed == <<1, 0>> \in bs.call.fails

\* the pixels of the bounding window of the geometry
PairWindowTotal == bs.call.shapes[0].hi - bs.call.shapes[0].lo + 1

PairNulls == \A m \in {"min", "max", "mean", "std"} : Field(bs.rec, PairName, m) = None

\* C6 as claimed: whenever a record has valid = 0, its min, max, mean and std
\* are null, its count is the pixel total of the window (not zero) and its
\* invalid equals that total.
C6_Claimed ==
    (bs.done /\ Field(bs.rec, PairName, "valid") = Real(0)) =>
        /\ PairNulls
        /\ Field(bs.rec, PairName, "count") = Real(PairWindowTotal)
        /\ Field(bs.rec, PairName, "invalid") = Real(PairWindowTotal)

\* C6 as amended: when the extraction succeeded and no pixel is valid, min,
\* max, mean and std are null, count is the pixel total of the window (not
\* zero) and invalid equals it; the record substituted after a failed
\* extraction has valid = 0 with nulls, count = 0 and invalid = 0.
C6_ZeroValidRecord ==
    (bs.done /\ Field(bs.rec, PairName, "valid") = Real(0)) =>
        /\ PairNulls
        /\ ~PairFailed =>
              /\ Field(bs.rec, PairName, "count") = Real(PairWindowTotal)
              /\ Field(bs.rec, PairName, "invalid") = Real(PairWindowTotal)
              /\ PairWindowTotal > 0
        /\ PairFailed =>
              /\ Field(bs.rec, PairName, "count") = Real(0)
              /\ Field(bs.rec, PairName, "invalid") = Real(0)

\* an extracted window of two pixels, none of them valid
C6_Witness ==
    /\ bs.done
    /\ ~PairFailed
    /\ Field(bs.rec, PairName, "valid") = Real(0)
    /\ Field(bs.rec, PairName, "count") = Real(2)

\* C7: the pixels of the window outside the geometry take no part in the
\* record: it is the record of the covered pixels alone, with or without a
\* nodata value.
C7_OutsidePixelsExcluded ==
    (bs.done /\ ~PairFailed) =>
        bs.rec = BandRecord(PairName, CoveredFrom(bs.call.src, bs.call.shapes[0], 1, bs.call.shapes[0].lo),
                            bs.call.src.nodata)

-----------------------------------------------------------------------------
(* main: values of the feature table *)

\* a cell of the timeseries column: a list (recs its entries), a date-keyed
\* dict (keys and recs in insertion order), anything else, or no column
Cell(kind, keys, recs) == [kind |-> kind, keys |-> keys, recs |-> recs]

AbsentCell == Cell("absent", <<>>, <<>>)

OtherCell == Cell("other", <<>>, <<>>)

ListCell(entries) == Cell("list", <<>>, entries)

\* {"date": k}
DateDict(k) == [f \in {DateField} |-> k]

\* lines 154-160
convert_ts(value) ==
    IF value.kind = "dict"
    THEN ListCell([k \in 1 .. Len(value.keys) |-> Update(DateDict(value.keys[k]), value.recs[k])])
    ELSE IF value.kind = "list" THEN value
    ELSE ListCell(<<>>)

\* AppendTs dropping the entries that carry the date of the new one
AppendTsOverwritesDate(ts_list, key, stat) ==
    ListCell(Append(SelectSeq(ts_list.recs, LAMBDA e : e[DateField] # key), Update(DateDict(key), stat)))

\* AppendTs starting a new list
AppendTsReplaces(ts_list, key, stat) == ListCell(<<Update(DateDict(key), stat)>>)

\* lines 174-178: the cell of feature i after the append
AppendTs(ts_list, key, stat) == ListCell(Append(ts_list.recs, Update(DateDict(key), stat)))

\* `not ts_data`
IsEmptyCell(value) == value.kind \in {"absent", "other"} \/ Len(value.recs) = 0

\* pd.to_datetime on one text: an ISO calendar date parses, the file names
\* used as fallback keys do not
ToDatetime(text) ==
    IF Len(text) = 10 /\ DigitsAt(text, 1, 4) /\ text[5] = "-" /\ DigitsAt(text, 6, 2)
       /\ text[8] = "-" /\ DigitsAt(text, 9, 2)
    THEN Strptime(StripSeps(text))
    ELSE Strptime(<<"0", "0", "0", "0", "0", "0", "0", "0">>)

DateOrd(e) == LET dt == ToDatetime(e[DateField]) IN 10000 * dt.y + 100 * dt.m + dt.d

\* the places a row can take in a table sorted by date
Insertions(t, e) ==
    { SubSeq(t, 1, p) \o <<e>> \o SubSeq(t, p + 1, Len(t)) :
        p \in { q \in 0 .. Len(t) :
                  /\ \A r \in 1 .. q : DateOrd(t[r]) <= DateOrd(e)
                  /\ \A r \in q + 1 .. Len(t) : DateOrd(t[r]) >= DateOrd(e) } }

\* df.sort_values("date"): the rows in ascending date order; the order of
\* rows of equal date is not fixed by the default sort
RECURSIVE SortedByDate(_)
SortedByDate(rows) ==
    IF rows = <<>> THEN {<<>>}
    ELSE UNION { Insertions(t, Head(rows)) : t \in SortedByDate(Tail(rows)) }

FeatureLabels == <<"feature_0", "feature_1", "feature_2", "feature_3">>

\* the values of the args.id_field column, one per feature ("unique
\* feature ID")
IdValues == <<"a", "b", "c", "d">>

\* line 184
Fid(i) == IF ids.has THEN ids.of[i] ELSE FeatureLabels[i + 1]

-----------------------------------------------------------------------------
(* main: inputs *)

Iso20230101 == <<"2", "0", "2", "3", "-", "0", "1", "-", "0", "1">>

Iso20230201 == <<"2", "0", "2", "3", "-", "0", "2", "-", "0", "1">>

Iso19990909 == <<"1", "9", "9", "9", "-", "0", "9", "-", "0", "9">>

LegacyRecord == StatsRecord("band_1", Real(1), Real(1), Real(1), Sqrt(0, 1), 1, 1, 0)

\* a record that carries a date field of its own
DatedRecord == Update(LegacyRecord, DateDict(Iso19990909))

InputCells ==
    { OtherCell,
      ListCell(<<Update(DateDict(Iso20230101), LegacyRecord)>>),
      Cell("dict", <<Iso20230201, Iso20230101>>, <<LegacyRecord, DatedRecord>>) }

NoStatistics == [i \in Features |-> EmptyDict]

InputTables ==
    { [cols |-> {}, statistics |-> NoStatistics, timeseries |-> [i \in Features |-> AbsentCell]] }
    \cup [cols : {{"timeseries"}}, statistics : {NoStatistics}, timeseries : [Features -> InputCells]]

\* a dated name, a name without date, a name whose digits are no date
MainFilenames ==
    { <<"s", "_", "2", "0", "2", "3", "0", "5", "1", "4", ".", "t", "i", "f">>,
      <<"s", "c", "e", "n", "e", "_", "n", "o", "D", "a", "t", "e", ".", "t", "i", "f">>,
      <<"s", "_", "2", "0", "2", "3", "1", "3", "0", "1", ".", "t", "i", "f">> }

\* the calls of compute_statistics main makes: gdf has NumFeatures features,
\* feature 0 covered whole, no band names are given
MainCalls ==
    { [src |-> [nodata |-> Real(0), count |-> 1, pixels |-> <<<<Real(1), Real(0)>>>>],
       shapes |-> [i \in Features |-> [lo |-> 1, hi |-> 2, inside |-> IF i = 0 THEN {1, 2} ELSE {1}]],
       band_names |-> <<>>,
       fails |-> f] : f \in {{}, {<<1, 0>>}} }

\* the id column: absent, or present
IdColumns == [has : BOOLEAN, of : {[i \in Features |-> IdValues[i + 1]]}]

-----------------------------------------------------------------------------
(* Spec: main *)

Init ==
    /\ FnIdle
    /\ BsIdle
    /\ CsIdle
    /\ pc = "start"
    /\ args \in [ntiffs : 1 .. MaxTiffs, export_csv : BOOLEAN]
    /\ input \in InputTables
    /\ gdf = input
    /\ ids = [has |-> FALSE, of |-> [i \in Features |-> IdValues[i + 1]]]
    /\ tiff_idx = 0
    /\ date_key = <<>>
    /\ stats = <<>>
    /\ row = 0
    /\ processed = <<>>
    /\ csv = EmptyDict
    /\ output = [saved |-> FALSE, gdf |-> input]

\* lines 140-147: the single raster; the statistics column is created when
\* absent and every row of it is assigned
SingleRaster ==
    /\ pc = "start"
    /\ args.ntiffs = 1
    /\ \E c \in MainCalls :
          /\ stats' = compute_statistics(c)
          /\ gdf' = [gdf EXCEPT !.cols = @ \cup {"statistics"},
                                !.statistics = [i \in Features |-> compute_statistics(c)[i + 1]]]
    /\ pc' = "drop"
    /\ UNCHANGED <<fn, bs, cs, args, input, ids, tiff_idx, date_key, row, processed, csv, output>>

\* lines 148-161: the timeseries column is created or normalised
InitTimeseries ==
    /\ pc = "start"
    /\ args.ntiffs # 1
    /\ gdf' = [gdf EXCEPT !.cols = @ \cup {"timeseries"},
                          !.timeseries = IF "timeseries" \notin gdf.cols
                                         THEN [i \in Features |-> ListCell(<<>>)]
                                         ELSE [i \in Features |-> convert_ts(gdf.timeseries[i])]]
    /\ tiff_idx' = 1
    /\ pc' = "key"
    /\ UNCHANGED <<fn, bs, cs, args, input, ids, date_key, stats, row, processed, csv, output>>

\* lines 163-166: the temporal key of the next raster; the ValueError of
\* strptime is not caught
ExtractDate ==
    /\ pc = "key"
    /\ \E filename \in MainFilenames :
          IF TemporalKey(filename).outcome = "raised"
          THEN pc' = "raised" /\ UNCHANGED date_key
          ELSE pc' = "stats" /\ date_key' = TemporalKey(filename).key
    /\ UNCHANGED <<fn, bs, cs, args, input, gdf, ids, tiff_idx, stats, row, processed, csv, output>>

\* line 167
ComputeStatistics ==
    /\ pc = "stats"
    /\ \E c \in MainCalls :
          /\ stats' = compute_statistics(c)
          /\ processed' = Append(processed, [date_key |-> date_key, stats |-> compute_statistics(c)])
    /\ row' = 0
    /\ pc' = "append"
    /\ UNCHANGED <<fn, bs, cs, args, input, gdf, ids, tiff_idx, date_key, csv, output>>

\* lines 45, 141, 167: rasterio.open raises on a raster it cannot open
OpenFails ==
    /\ pc = "stats" \/ (pc = "start" /\ args.ntiffs = 1)
    /\ pc' = "raised"
    /\ UNCHANGED <<fn, bs, cs, args, input, gdf, ids, tiff_idx, date_key, stats, row, processed, csv, output>>

\* lines 171-178: the entry of feature row; after the last feature the next
\* raster, after the last raster line 181
AppendEntry ==
    /\ pc = "append"
    /\ gdf' = [gdf EXCEPT !.timeseries[row] = AppendTs(gdf.timeseries[row], date_key, stats[row + 1])]
    /\ IF row + 1 < Len(stats)
       THEN row' = row + 1 /\ UNCHANGED <<pc, tiff_idx>>
       ELSE /\ row' = 0
            /\ tiff_idx' = tiff_idx + 1
            /\ pc' = IF tiff_idx = args.ntiffs THEN "export" ELSE "key"
    /\ UNCHANGED <<fn, bs, cs, args, input, ids, date_key, stats, processed, csv, output>>

\* line 181, and the id column gdf.iterrows shows
BeginExport ==
    /\ pc = "export"
    /\ IF args.export_csv
       THEN pc' = "rows" /\ ids' \in IdColumns
       ELSE pc' = "drop" /\ UNCHANGED ids
    /\ UNCHANGED <<fn, bs, cs, args, input, gdf, tiff_idx, date_key, stats, row, processed, csv, output>>

\* lines 183-199: the table of feature row; to_datetime raises on a date it
\* cannot parse
ExportRow ==
    /\ pc = "rows"
    /\ LET ts_data == gdf.timeseries[row] IN
       IF IsEmptyCell(ts_data)
       THEN /\ UNCHANGED csv
            /\ row' = IF row + 1 < NumFeatures THEN row + 1 ELSE 0
            /\ pc' = IF row + 1 < NumFeatures THEN "rows" ELSE "drop"
       ELSE IF \E k \in 1 .. Len(ts_data.recs) : ~ToDatetime(ts_data.recs[k][DateField]).ok
       THEN pc' = "raised" /\ UNCHANGED <<csv, row>>
       ELSE /\ \E rows \in SortedByDate(ts_data.recs) : csv' = Update(csv, [f \in {Fid(row)} |-> rows])
            /\ row' = IF row + 1 < NumFeatures THEN row + 1 ELSE 0
            /\ pc' = IF row + 1 < NumFeatures THEN "rows" ELSE "drop"
    /\ UNCHANGED <<fn, bs, cs, args, input, gdf, ids, tiff_idx, date_key, stats, processed, output>>

\* lines 201-202
DropTimeseries ==
    /\ pc = "drop"
    /\ IF "timeseries" \in gdf.cols /\ args.export_csv
       THEN gdf' = [gdf EXCEPT !.cols = @ \ {"timeseries"},
                               !.timeseries = [i \in Features |-> AbsentCell]]
       ELSE UNCHANGED gdf
    /\ pc' = "save"
    /\ UNCHANGED <<fn, bs, cs, args, input, ids, tiff_idx, date_key, stats, row, processed, csv, output>>

\* lines 204-205
Save ==
    /\ pc = "save"
    /\ output' = [saved |-> TRUE, gdf |-> gdf]
    /\ pc' = "done"
    /\ UNCHANGED <<fn, bs, cs, args, input, gdf, ids, tiff_idx, date_key, stats, row, processed, csv>>

Next ==
    \/ SingleRaster
    \/ InitTimeseries
    \/ ExtractDate
    \/ ComputeStatistics
    \/ OpenFails
    \/ AppendEntry
    \/ BeginExport
    \/ ExportRow
    \/ DropTimeseries
    \/ Save

Spec == Init /\ [][Next]_vars

-----------------------------------------------------------------------------
(* Claims on the temporal key *)

\* C3: for every filename the temporal key is computed without raising and
\* is either a YYYY-MM-DD date or the filename itself, also when the digits
\* the pattern matches are no calendar date.
C3_KeyNeverRaises ==
    /\ fn.outcome # "raised"
    /\ fn.outcome = "key" => (ToDatetime(fn.key).ok \/ fn.key = fn.filename)

-----------------------------------------------------------------------------
(* Claims on main *)

InLoop == pc \in {"key", "stats", "append"}

\* the feature has no series in the input: no column, or a cell that is
\* neither a list nor a dict
InitiallyEmpty(i) == IsEmptyCell(input.timeseries[i])

\* the entry main appends to feature i for the k-th raster
EntryOf(k, i) == Update(DateDict(processed[k].date_key), processed[k].stats[i + 1])

\* the rasters whose entry feature i holds
Appended(i) == IF pc = "append" /\ i >= row THEN Len(processed) - 1 ELSE Len(processed)

C4_MappingNormalised ==
    (args.ntiffs >= 2 /\ (InLoop \/ pc \in {"export", "rows"})) =>
        \A i \in Features :
            input.timeseries[i].kind = "dict" =>
                LET v == input.timeseries[i]
                    ts == gdf.timeseries[i]
                IN  /\ ts.kind = "list"
                    /\ Len(ts.recs) >= Len(v.keys)
                    /\ (pc = "key" /\ tiff_idx = 1) => Len(ts.recs) = Len(v.keys)
                    /\ \A k \in 1 .. Len(v.keys) :
                          /\ ts.recs[k][DateField] = v.keys[k]
                          /\ \A f \in DOMAIN v.recs[k] \ {DateField} :
                                f \in DOMAIN ts.recs[k] /\ ts.recs[k][f] = v.recs[k][f]

\* the length of the series of feature i once normalised
NormalLen(i) == Len(convert_ts(input.timeseries[i]).recs)

\* C8: the series grow by append only. An append adds one entry dated with
\* the key of the raster at the end of the series of one feature and leaves
\* the entries before it, and the series of every other feature, as they
\* were; when a raster is finished every series is one longer than before
\* it; no other step of the loop or of the export changes a series.
C8_Step ==
    /\ pc = "append" =>
          /\ Len(gdf'.timeseries[row].recs) = Len(gdf.timeseries[row].recs) + 1
          /\ SubSeq(gdf'.timeseries[row].recs, 1, Len(gdf.timeseries[row].recs)) = gdf.timeseries[row].recs
          /\ gdf'.timeseries[row].recs[Len(gdf.timeseries[row].recs) + 1][DateField] = date_key
          /\ \A j \in Features \ {row} : gdf'.timeseries[j] = gdf.timeseries[j]
    /\ (pc = "append" /\ pc' # "append") =>
          \A i \in Features : Len(gdf'.timeseries[i].recs) = NormalLen(i) + tiff_idx
    /\ pc \in {"key", "stats", "export", "rows"} => gdf'.timeseries = gdf.timeseries

C8_SeriesGrowsByAppend == [][C8_Step]_vars

\* a series normalised from a mapping to which two rasters of the same date
\* key were appended, and which holds every entry
C8_Witness ==
    /\ pc = "export"
    /\ \E i \in Features :
          /\ input.timeseries[i].kind = "dict"
          /\ NormalLen(i) >= 2
          /\ Len(gdf.timeseries[i].recs) = NormalLen(i) + args.ntiffs
          /\ gdf.timeseries[i].recs[NormalLen(i) + 1][DateField] = gdf.timeseries[i].recs[NormalLen(i) + 2][DateField]

\* the rows of a table are the entries of a series
SameRows(rows, entries) ==
    /\ Len(rows) = Len(entries)
    /\ \A e \in {entries[k] : k \in 1 .. Len(entries)} :
          Cardinality({k \in 1 .. Len(rows) : rows[k] = e}) = Cardinality({k \in 1 .. Len(entries) : entries[k] = e})

\* C10: whenever the timeseries column is removed, export was requested and
\* every non-empty series has been written to the table of its feature, in
\* single-raster as in multi-raster mode.
C10_Step ==
    ("timeseries" \in gdf.cols /\ "timeseries" \notin gdf'.cols) =>
        /\ args.export_csv
        /\ \A i \in Features :
              ~IsEmptyCell(gdf.timeseries[i]) =>
                  Fid(i) \in DOMAIN csv /\ SameRows(csv[Fid(i)], gdf.timeseries[i].recs)

C10_DropOnlyAfterExport == [][C10_Step]_vars

=============================================================================
